---- MODULE Spec2Model ----
(***************************************************************************)
(* Model of the banking core of ThomasKairu/BankingSystem:                 *)
(*   - the balance ledger       (backend/app/services/account.py)          *)
(*   - the transaction services (backend/app/services/transaction.py and   *)
(*                               backend/app/services/transaction_service.py)*)
(*   - the HTTP endpoints in front of them                                 *)
(*                              (backend/app/api/v1/endpoints/*.py)        *)
(* Amounts are exact decimals in the code (Decimal / Numeric(18,2)); here  *)
(* they are integers in the same unit.  A risk score is a float in [0,1];  *)
(* here a sub-score and the threshold are integer numbers of hundredths    *)
(* and a weighted score one of ten-thousandths.  An absent reference is 0, *)
(* an absent string "", and an optional number a sequence of at most one   *)
(* number (<<>> for None, and for a score that was not computed).  An      *)
(* unhandled exception is recorded by its message, in the place of the     *)
(* detail of an HTTP error.                                                *)
(***************************************************************************)
EXTENDS Integers, Sequences, FiniteSets, TLC

(***************************************************************************)
(* Bounds of the model.                                                    *)
(***************************************************************************)
MaxAccounts == 2
MaxTx == 1
MaxAmount == 2
MaxBalance == 2
MaxOverdraft == 1
MaxLimit == 1
MaxDay == 1
NumUsers == 2
NumHolders == 1
NumWorkers == 2
MaxConcurrentAmount == 1
NumClients == 1
MaxListed == 20
MaxSent == 41
BurstSeconds == 2
MaxHistory == 3
MaxMixed == 7
NumTasks == 2
MaxHourly == 4

(***************************************************************************)
(* Program constants.                                                      *)
(***************************************************************************)
DefaultDailyTransferLimit == 10000
DefaultWithdrawalLimit == 5000
FraudThreshold == 80

Users == 1..NumUsers
Holders == 1..NumHolders
Workers == 1..NumWorkers
AccountIds == 1..MaxAccounts
Amounts == {0 - 1} \cup (1..MaxAmount)
InitialBalances == {0, MaxAmount}
\* AccountLimits: each limit is None or a decimal; zero is accepted.
LimitInputs == {<<>>} \cup {<<l>> : l \in 0..MaxLimit}

AccountStatus == {"active", "inactive", "frozen", "closed"}
StatusInputs == {"active", "frozen"}
TransactionType ==
    {"deposit", "withdrawal", "transfer", "payment", "fee", "interest",
     "investment", "crypto"}
TypeInputs == {"deposit", "withdrawal", "transfer", "payment", "interest"}
TransactionStatus ==
    {"pending", "completed", "failed", "cancelled", "reversed", "flagged"}
Operations == {"credit", "debit"}

VARIABLES
    accounts,      \* the accounts table: row id -> Account
    account_seq,   \* the last id the accounts table has issued
    transactions,  \* the transactions table: row id -> Transaction
    today,         \* the calendar day of the server clock
    sess,          \* per worker: the unit of work of a request being handled
    last,          \* the most recent request and its response
    prev,          \* balances before the most recent request
    ledger         \* per account: opening balance + credits - debits reported

VARIABLES
    requests,      \* RateLimiter.requests: client ip -> list of timestamps
    blocked_ips,   \* RateLimiter.blocked_ips: client ip -> time of the block
    now,           \* time.time(), in seconds
    environment,   \* settings.ENVIRONMENT
    response,      \* what check_rate_limit answered to the latest request
    sent,          \* the times of the requests of a burst, admitted or not
    tasks          \* the check_rate_limit coroutines in flight on the loop

VARIABLES
    history,       \* the transactions of the analysed user, oldest first
    devices,       \* the AuthDevice rows of the analysed user, by device_id
    analysis       \* the latest call of analyze_transaction and its outcome

bankVars ==
    <<accounts, account_seq, transactions, today, sess, last, prev, ledger>>
limiterVars ==
    <<requests, blocked_ips, now, environment, response, sent, tasks>>
fraudVars == <<history, devices, analysis>>
vars == <<accounts, account_seq, transactions, today, sess, last, prev, ledger,
          requests, blocked_ips, now, environment, response, sent, tasks,
          history, devices, analysis>>

Balances(accts) == [i \in DOMAIN accts |-> accts[i].balance]

RECURSIVE SumSeq(_)
SumSeq(s) == IF s = <<>> THEN 0 ELSE s[1] + SumSeq(Tail(s))

\* The sum of the values of a table column, given by row id.
RECURSIVE SumOf(_)
SumOf(f) ==
    IF DOMAIN f = {} THEN 0
    ELSE LET i == CHOOSE j \in DOMAIN f : TRUE
         IN  f[i] + SumOf([j \in DOMAIN f \ {i} |-> f[j]])

\* d[key] = value
SetItem(d, key, value) ==
    [k \in DOMAIN d \cup {key} |-> IF k = key THEN value ELSE d[k]]

\* del d[key]
DelItem(d, key) == [k \in DOMAIN d \ {key} |-> d[k]]

InRange(accts) ==
    \A i \in DOMAIN accts :
        /\ accts[i].balance <= MaxBalance
        /\ accts[i].balance >= 0 - MaxOverdraft

NoRequest ==
    [op |-> "none", result |-> "", user_id |-> 0, account_id |-> 0,
     amount |-> 0, type |-> "", recipient |-> 0, score |-> <<>>, tx |-> 0]

Idle == [pc |-> "idle"]

\* A run observes at most one request, the one a property is about: the
\* request handled in this step is either recorded with the balances it found
\* (and the run stops there), or not recorded.
Observe(request) ==
    \/ last' = request /\ prev' = Balances(accounts)
    \/ last' = NoRequest /\ prev' = <<>>

Unobserved == last = NoRequest

Request(op, result, u, a, amt, type, rcp, score, tx) ==
    [op |-> op, result |-> result, user_id |-> u, account_id |-> a,
     amount |-> amt, type |-> type, recipient |-> rcp, score |-> score,
     tx |-> tx]

(***************************************************************************)
(* AccountService (services/account.py)                                    *)
(***************************************************************************)

\* AccountService.create: the row of a newly opened account.
NewAccount(id, user_id, initial_balance) ==
    [account_number |-> id,
     user_id |-> user_id,
     status |-> "active",
     balance |-> initial_balance,
     daily_transfer_limit |-> DefaultDailyTransferLimit,
     withdrawal_limit |-> DefaultWithdrawalLimit]

\* AccountService.update_balance: raises ValueError("Insufficient funds") on
\* a debit with balance < amount; any other operation string changes nothing.
UpdateBalance(accts, account_id, amount, operation) ==
    IF operation = "credit"
    THEN [result |-> "ok",
          accounts |-> [accts EXCEPT ![account_id].balance = @ + amount]]
    ELSE IF operation = "debit"
    THEN IF accts[account_id].balance < amount
         THEN [result |-> "Insufficient funds", accounts |-> accts]
         ELSE [result |-> "ok",
               accounts |-> [accts EXCEPT ![account_id].balance = @ - amount]]
    ELSE [result |-> "ok", accounts |-> accts]

(***************************************************************************)
(* NotificationService (services/notification_service.py), which every     *)
(* TransactionService of transaction_service.py builds and calls           *)
(***************************************************************************)

\* The fields of Settings that the notification code reads or could read
\* (core/config.py 44-67): the attributes the settings object has.
SettingsFields ==
    {"SMTP_TLS", "SMTP_PORT", "SMTP_HOST", "SMTP_USER", "SMTP_PASSWORD",
     "EMAILS_FROM_EMAIL", "EMAILS_FROM_NAME", "TWILIO_ACCOUNT_SID",
     "TWILIO_AUTH_TOKEN", "TWILIO_FROM_NUMBER", "FIREBASE_CREDENTIALS"}

\* The columns of User that hold preferences (models/user.py 29, 41).
UserFields == {"preferences", "notification_settings"}

\* The fields of a TransactionCreate body (schemas/transaction.py 6-17).
TransactionCreateFields ==
    {"account_id", "amount", "type", "description", "category",
     "recipient_account", "recipient_bank", "merchant_info"}

\* NotificationService.__init__ reads four attributes of settings, in this
\* order; reading one the object lacks raises AttributeError.
NotificationServiceInit ==
    IF "SMTP_SENDER" \notin SettingsFields
    THEN "'Settings' object has no attribute 'SMTP_SENDER'"
    ELSE IF "SMTP_PASSWORD" \notin SettingsFields
    THEN "'Settings' object has no attribute 'SMTP_PASSWORD'"
    ELSE IF "SMS_API_KEY" \notin SettingsFields
    THEN "'Settings' object has no attribute 'SMS_API_KEY'"
    ELSE IF "PUSH_API_KEY" \notin SettingsFields
    THEN "'Settings' object has no attribute 'PUSH_API_KEY'"
    ELSE "ok"

\* NotificationService.send_transaction_notification, called with no
\* background_tasks: it awaits _send_notifications, whose first statement
\* reads user.notification_preferences (line 224).
SendTransactionNotification ==
    IF "notification_preferences" \notin UserFields
    THEN "'User' object has no attribute 'notification_preferences'"
    ELSE "ok"

(***************************************************************************)
(* TransactionService of services/transaction_service.py                   *)
(***************************************************************************)

\* TransactionService.__init__ (line 17) builds a NotificationService.
TransactionServiceInit == NotificationServiceInit

\* The Transaction built by create_transaction (lines 37-51); status is the
\* column default until a _process_* method assigns it.
NewTransaction(id, user_id, data, day) ==
    [reference_id |-> id,
     user_id |-> user_id,
     account_id |-> data.account_id,
     type |-> data.type,
     status |-> "pending",
     amount |-> data.amount,
     recipient_account |-> data.recipient_account,
     created_at |-> day,
     failure_reason |-> ""]

\* The query of _validate_transaction_limits: the account's transfers created
\* today (no filter on status).
TodayTransfers(txs, account_id, day) ==
    SelectSeq(txs, LAMBDA t : /\ t.account_id = account_id
                              /\ t.type = "transfer"
                              /\ t.created_at >= day)

TotalTransfers(txs, account_id, day) ==
    LET today_transfers == TodayTransfers(txs, account_id, day)
    IN  SumSeq([i \in DOMAIN today_transfers |-> today_transfers[i].amount])

\* TransactionService._validate_transaction_limits
ValidateTransactionLimits(account, account_id, txs, day, tx) ==
    IF tx.type = "withdrawal" /\ tx.amount > account.withdrawal_limit
    THEN "Amount exceeds withdrawal limit"
    ELSE IF /\ tx.type = "transfer"
            /\ TotalTransfers(txs, account_id, day) + tx.amount
                   > account.daily_transfer_limit
    THEN "Amount exceeds daily transfer limit"
    ELSE "ok"

\* TransactionService._process_withdrawal
ProcessWithdrawal(accts, tx, account_id) ==
    IF accts[account_id].balance < tx.amount
    THEN [result |-> "Insufficient funds", accounts |-> accts, tx |-> tx]
    ELSE [result |-> "ok",
          accounts |-> [accts EXCEPT ![account_id].balance = @ - tx.amount],
          tx |-> [tx EXCEPT !.status = "completed"]]

\* TransactionService._process_deposit
ProcessDeposit(accts, tx, account_id) ==
    [result |-> "ok",
     accounts |-> [accts EXCEPT ![account_id].balance = @ + tx.amount],
     tx |-> [tx EXCEPT !.status = "completed"]]

\* The recipient lookup of _process_transfer: rows whose account_number is
\* the transaction's recipient_account.
RecipientRows(accts, recipient_account) ==
    {i \in DOMAIN accts : accts[i].account_number = recipient_account}

\* TransactionService._process_transfer
ProcessTransfer(accts, tx, account_id) ==
    LET rows == RecipientRows(accts, tx.recipient_account) IN
    IF accts[account_id].balance < tx.amount
    THEN [result |-> "Insufficient funds", accounts |-> accts, tx |-> tx]
    ELSE IF rows = {}
    THEN [result |-> "Recipient account not found", accounts |-> accts,
          tx |-> tx]
    ELSE LET recipient == CHOOSE i \in rows : TRUE IN
         IF accts[recipient].status # "active"
         THEN [result |-> "Recipient account is not active",
               accounts |-> accts, tx |-> tx]
         ELSE LET debited ==
                      [accts EXCEPT ![account_id].balance = @ - tx.amount]
              IN  [result |-> "ok",
                   accounts |->
                       [debited EXCEPT ![recipient].balance = @ + tx.amount],
                   tx |-> [tx EXCEPT !.status = "completed"]]

\* The type dispatch of create_transaction (lines 56-62).
ProcessByType(accts, tx, account_id) ==
    IF tx.type = "withdrawal" THEN ProcessWithdrawal(accts, tx, account_id)
    ELSE IF tx.type = "deposit" THEN ProcessDeposit(accts, tx, account_id)
    ELSE IF tx.type = "transfer" THEN ProcessTransfer(accts, tx, account_id)
    ELSE [result |-> "ok", accounts |-> accts, tx |-> tx]

\* TransactionService.create_transaction: what the caller gets (the detail of
\* the HTTPException or the message of the exception raised, "ok" when the
\* transaction is returned), the tables as the call leaves them, the row it
\* stored, and whether db.commit() (line 65) was reached.  The notification
\* (line 69) is sent after the commit.
ServiceCreateTransaction(accts, txs, day, user_id, data) ==
    LET a  == data.account_id
        tx == NewTransaction(Len(txs) + 1, user_id, data, day)
        unchanged(detail) ==
            [result |-> detail, accounts |-> accts, transactions |-> txs,
             tx |-> 0, committed |-> FALSE]
    IN
    IF ~(a \in DOMAIN accts /\ accts[a].user_id = user_id)
    THEN unchanged("Account not found")
    ELSE IF accts[a].status # "active"
    THEN unchanged("Account is not active")
    ELSE LET limits == ValidateTransactionLimits(accts[a], a, txs, day, tx) IN
         IF limits # "ok"
         THEN unchanged(limits)
         ELSE LET done == ProcessByType(accts, tx, a) IN
              IF done.result # "ok"
              THEN unchanged(done.result)
              ELSE [result |-> SendTransactionNotification,
                    accounts |-> done.accounts,
                    transactions |-> Append(txs, done.tx),
                    tx |-> Len(txs) + 1, committed |-> TRUE]

\* Request bodies: recipient_account is None (0) or an account number, and
\* is given for transfers only.
TransactionData ==
    {d \in [account_id : AccountIds, amount : Amounts, type : TypeInputs,
            recipient_account : {0} \cup AccountIds] :
        d.recipient_account # 0 => d.type = "transfer"}

\* What a committed request adds to the sum of the mutations it reported.
Applied(before, after) ==
    [i \in DOMAIN ledger |-> ledger[i] + (after[i].balance - before[i].balance)]

(***************************************************************************)
(* AccountService.update_status / update_limits                            *)
(***************************************************************************)

\* AccountService.update_status
UpdateStatusRow(accts, account_id, status) ==
    [accts EXCEPT ![account_id].status = status]

\* AccountService.update_limits: a limit that is None (<<>>) is left as it
\* is; any decimal given, zero included, is stored.
UpdateLimitsRow(accts, account_id, daily_transfer_limit, withdrawal_limit) ==
    [accts EXCEPT
        ![account_id].daily_transfer_limit =
            IF daily_transfer_limit # <<>> THEN daily_transfer_limit[1] ELSE @,
        ![account_id].withdrawal_limit =
            IF withdrawal_limit # <<>> THEN withdrawal_limit[1] ELSE @]

\* AccountService.delete.  db.delete of the None that get() returns for an
\* unknown id raises UnmappedInstanceError; deleting an account that has
\* transactions sets their account_id, a NOT NULL column, to NULL, and the
\* commit raises IntegrityError.  Neither changes a table.
DeleteRow(accts, txs, account_id) ==
    IF account_id \notin DOMAIN accts
    THEN [result |-> "UnmappedInstanceError", accounts |-> accts]
    ELSE IF \E t \in DOMAIN txs : txs[t].account_id = account_id
    THEN [result |-> "IntegrityError", accounts |-> accts]
    ELSE [result |-> "ok", accounts |-> DelItem(accts, account_id)]

(***************************************************************************)
(* TransactionService of services/transaction.py                           *)
(***************************************************************************)

\* TransactionService.create_transaction: the Pending row it stores.
NewPendingTransaction(id, user_id, account_id, amount, transaction_type, day) ==
    [reference_id |-> id,
     user_id |-> user_id,
     account_id |-> account_id,
     type |-> transaction_type,
     status |-> "pending",
     amount |-> amount,
     recipient_account |-> 0,
     created_at |-> day,
     failure_reason |-> ""]

\* The operation process_transaction derives from the type (lines 90-94).
OperationOf(transaction_type) ==
    IF transaction_type \in {"withdrawal", "transfer", "payment"}
    THEN "debit" ELSE "credit"

\* TransactionService.process_transaction
ProcessTransactionRows(accts, txs, transaction_id) ==
    LET transaction == txs[transaction_id]
        r == UpdateBalance(accts, transaction.account_id, transaction.amount,
                           OperationOf(transaction.type))
    IN  IF r.result = "ok"
        THEN [result |-> "ok",
              accounts |-> r.accounts,
              transactions |->
                  [txs EXCEPT ![transaction_id].status = "completed"]]
        ELSE [result |-> r.result,
              accounts |-> accts,
              transactions |->
                  [txs EXCEPT ![transaction_id].status = "failed",
                              ![transaction_id].failure_reason = r.result]]

\* TransactionService.flag_suspicious_transaction
FlagRows(txs, transaction_id) ==
    [txs EXCEPT ![transaction_id].status = "flagged"]

\* TransactionService.cancel_transaction (transaction_service.py): what the
\* caller gets, the table as the call leaves it, and whether db.commit()
\* (line 181) was reached.  The notification (line 184) is sent after it.
CancelRows(txs, transaction_id, user_id) ==
    IF ~(transaction_id \in DOMAIN txs /\ txs[transaction_id].user_id = user_id)
    THEN [result |-> "Transaction not found", transactions |-> txs,
          committed |-> FALSE]
    ELSE IF txs[transaction_id].status # "pending"
    THEN [result |-> "Only pending transactions can be cancelled",
          transactions |-> txs, committed |-> FALSE]
    ELSE [result |-> SendTransactionNotification,
          transactions |-> [txs EXCEPT ![transaction_id].status = "cancelled"],
          committed |-> TRUE]

\* POST /transactions/{transaction_id}/cancel (transactions.py 122-135): the
\* service is built (line 131), then cancel_transaction is called.
EndpointCancelTransaction(txs, transaction_id, user_id) ==
    IF TransactionServiceInit # "ok"
    THEN [result |-> TransactionServiceInit, transactions |-> txs,
          committed |-> FALSE]
    ELSE CancelRows(txs, transaction_id, user_id)

(***************************************************************************)
(* RateLimiter (core/rate_limiter.py)                                      *)
(***************************************************************************)

Clients == 1..NumClients

\* The instants at which requests arrive and the background task runs: they
\* put a timestamp just inside and just outside each window (59, 60; 299,
\* 300) and a block just before, at and after the end of its hour.
TimePoints == {0, 59, 60, 299, 300, 3599, 3600, 3601, 3660}

\* self.limits: (max_requests, window) per route class.
limits ==
    [default      |-> <<100, 60>>,
     auth         |-> <<5, 60>>,
     transactions |-> <<20, 60>>,
     high_value   |-> <<5, 300>>]

\* The block lasts one hour (line 64).
BlockSeconds == 3600
\* The background task keeps timestamps younger than one hour (line 32) ...
RetentionSeconds == 3600
\* ... and drops a block entry older than one hour (line 39).
UnblockAfter == 3600

Environments == {"development", "staging", "production"}

\* Request paths, by what _get_limit looks at: the prefix of the path and
\* whether "high-value" occurs in it.
Paths ==
    {[prefix |-> "/api/v1/auth", high_value |-> FALSE],
     [prefix |-> "/api/v1/transactions", high_value |-> FALSE],
     [prefix |-> "/api/v1/accounts", high_value |-> TRUE],
     [prefix |-> "/api/v1/accounts", high_value |-> FALSE]}

\* RateLimiter._get_limit
GetLimit(path) ==
    IF path.prefix = "/api/v1/auth" THEN limits.auth
    ELSE IF path.prefix = "/api/v1/transactions" THEN limits.transactions
    ELSE IF path.high_value THEN limits.high_value
    ELSE limits.default

MaxRequestsOf(path) == GetLimit(path)[1]
WindowOf(path) == GetLimit(path)[2]

\* The paths a client of the model requests: those whose class admits at most
\* MaxListed requests per window, which keeps the lists short.
RequestedPaths == {path \in Paths : MaxRequestsOf(path) <= MaxListed}

\* self.requests[client_ip] of the defaultdict: a missing key reads as [].
RequestsOf(reqs, client_ip) ==
    IF client_ip \in DOMAIN reqs THEN reqs[client_ip] ELSE <<>>

\* The purge with <= for <: a timestamp exactly `window` old is kept.
YoungerInclusive(list, current_time, window) ==
    SelectSeq(list, LAMBDA req_time : current_time - req_time <= window)

\* The timestamps of a list younger than `window` (lines 79-82, 30-33).
Younger(list, current_time, window) ==
    SelectSeq(list, LAMBDA req_time : current_time - req_time < window)

NoResponse ==
    [client |-> 0, path |-> "", at |-> 0, result |-> "", retry_after |-> 0,
     unblocked |-> FALSE]

Admitted == "admitted"
RateLimited == "Rate limit exceeded"
NowBlocked == "Rate limit exceeded. Your IP has been blocked."
StillBlocked == "Too many requests. Please try again later."

\* The block test with <= for <: the block still holds when it is exactly
\* one hour old.
BlockActiveInclusive(blocked, client_ip, current_time) ==
    /\ client_ip \in DOMAIN blocked
    /\ current_time - blocked[client_ip] <= BlockSeconds

\* Lines 62-64: the client has a block entry less than one hour old.
BlockActive(blocked, client_ip, current_time) ==
    /\ client_ip \in DOMAIN blocked
    /\ current_time - blocked[client_ip] < BlockSeconds

\* The window check of lines 75-106, once the client is known not to be
\* blocked; `unblocked` is `blocked` without the client's expired entry.
CheckWindow(reqs, unblocked, client_ip, path, current_time, expired) ==
    LET max_requests == MaxRequestsOf(path)
        window       == WindowOf(path)
        kept == Younger(RequestsOf(reqs, client_ip), current_time, window)
        cleaned == SetItem(reqs, client_ip, kept)
    IN  IF Len(kept) >= max_requests
        THEN IF Len(kept) >= max_requests * 2
             THEN [result |-> NowBlocked, requests |-> cleaned,
                   blocked_ips |-> SetItem(unblocked, client_ip, current_time),
                   unblocked |-> expired, retry_after |-> 0]
             ELSE [result |-> RateLimited, requests |-> cleaned,
                   blocked_ips |-> unblocked, unblocked |-> expired,
                   retry_after |-> window - (current_time - kept[1])]
        ELSE [result |-> Admitted,
              requests |-> SetItem(reqs, client_ip, Append(kept, current_time)),
              blocked_ips |-> unblocked, unblocked |-> expired,
              retry_after |-> 0]

\* check_rate_limit where a request rejected during the block restarts it.
CheckRateLimitExtendingBlock(env, reqs, blocked, client_ip, path, current_time) ==
    IF env = "development"
    THEN [result |-> Admitted, requests |-> reqs, blocked_ips |-> blocked,
          unblocked |-> FALSE, retry_after |-> 0]
    ELSE IF BlockActive(blocked, client_ip, current_time)
    THEN [result |-> StillBlocked, requests |-> reqs,
          blocked_ips |-> SetItem(blocked, client_ip, current_time),
          unblocked |-> FALSE, retry_after |-> 0]
    ELSE CheckWindow(reqs, DelItem(blocked, client_ip), client_ip, path,
                     current_time, client_ip \in DOMAIN blocked)

\* RateLimiter.check_rate_limit: the answer, the two dictionaries after,
\* whether an expired block entry was deleted (line 73), and the retry_after
\* of a "Rate limit exceeded" answer (line 101).
CheckRateLimit(env, reqs, blocked, client_ip, path, current_time) ==
    IF env = "development"
    THEN [result |-> Admitted, requests |-> reqs, blocked_ips |-> blocked,
          unblocked |-> FALSE, retry_after |-> 0]
    ELSE IF BlockActive(blocked, client_ip, current_time)
    THEN [result |-> StillBlocked, requests |-> reqs, blocked_ips |-> blocked,
          unblocked |-> FALSE, retry_after |-> 0]
    ELSE CheckWindow(reqs, DelItem(blocked, client_ip), client_ip, path,
                     current_time, client_ip \in DOMAIN blocked)

\* The purge of lines 79-82 alone.
Purged(reqs, client_ip, path, current_time) ==
    SetItem(reqs, client_ip,
            Younger(RequestsOf(reqs, client_ip), current_time, WindowOf(path)))

\* The coroutines of check_rate_limit that the event loop runs for the
\* requests in flight.
Tasks == 1..NumTasks

IdleTask ==
    [pc |-> "idle", client |-> 0, path |-> "", current_time |-> 0,
     result |-> ""]

\* check_rate_limit with an await between its check and its append.
SuspendsBeforeAppend(position) == position = "append"

\* Whether the event loop can run another coroutine before `position` of
\* check_rate_limit: lines 54-106 hold no await, so it never can.
Suspends(position) == FALSE

\* A pass that purges the timestamps but leaves the block list alone.
CleanupPassKeepingBlocks(reqs, blocked, current_time) ==
    LET live == {ip \in DOMAIN reqs :
                    Younger(reqs[ip], current_time, RetentionSeconds) # <<>>}
    IN  [requests |->
             [ip \in live |-> Younger(reqs[ip], current_time, RetentionSeconds)],
         blocked_ips |-> blocked]

\* One pass of RateLimiter._cleanup_old_requests.
CleanupPass(reqs, blocked, current_time) ==
    LET live == {ip \in DOMAIN reqs :
                    Younger(reqs[ip], current_time, RetentionSeconds) # <<>>}
        held == {ip \in DOMAIN blocked :
                    ~(current_time - blocked[ip] > UnblockAfter)}
    IN  [requests |->
             [ip \in live |-> Younger(reqs[ip], current_time, RetentionSeconds)],
         blocked_ips |-> [ip \in held |-> blocked[ip]]]

(***************************************************************************)
(* FraudDetectionService (services/fraud_detection.py).  Amounts are       *)
(* Decimal, as the schema and the Numeric column make them; sub-scores are *)
(* Python floats, written here in hundredths, and the weighted score in    *)
(* ten-thousandths.  Times are ages in minutes before the call.            *)
(***************************************************************************)

\* timedelta(minutes=5), line 129
RecentSimilarMinutes == 5
\* timedelta(hours=1), line 79
HourMinutes == 60
\* timedelta(days=7), line 85
WeekMinutes == 7 * 24 * 60
\* timedelta(days=30), lines 32 and 110
MonthMinutes == 30 * 24 * 60

\* The weights of the four analyses (lines 36-47), in hundredths.
Weights == [amount |-> 30, frequency |-> 20, device |-> 25, pattern |-> 25]

FraudAmounts == {500, 2000}
FraudTypes == {"withdrawal", "deposit"}
\* Ages inside each of the 5 minute, 1 hour, 7 day and 30 day horizons, and
\* one beyond them.
Ages == {1, 30, 1440, 20000, 50000}
DeviceIds == {"d1", "d2"}
Fingerprints == {"f1", "f2"}

HistoryRows == [amount : FraudAmounts, type : FraudTypes, age : Ages]

\* The user's rows of the transactions table, in the order they were
\* created: the oldest first.
Histories ==
    {h \in UNION {[1..n -> HistoryRows] : n \in 0..MaxHistory} :
        \A i \in DOMAIN h : i > 1 => h[i - 1].age >= h[i].age}

\* dict.get(key) of a missing key, and a header the request does not carry.
None == "None"

\* The user's device registry: no device, or device d1 used a day ago or 31
\* days ago, registered with fingerprint f1 or (create_session,
\* auth_service.py 167-174) with none.
Registries ==
    {<<>>} \cup
    {[d \in {"d1"} |-> [fingerprint |-> f, last_used |-> u]] :
        f \in {"f1", None}, u \in {1440, 31 * 24 * 60}}

DeviceInfos == [device_id : DeviceIds, fingerprint : Fingerprints]

\* The headers X-Device-ID and X-Device-Fingerprint of a request.
RequestHeaders == [device_id : DeviceIds, fingerprint : Fingerprints]
NoHeaders == [device_id |-> "", fingerprint |-> ""]

\* device_info as the create_transaction endpoint builds it from the request
\* (transactions.py 28-33): the fingerprint header is not read.
EndpointDeviceInfo(headers) ==
    [ip_address |-> "10.0.0.1", user_agent |-> "agent",
     device_id |-> headers.device_id, device_type |-> "mobile"]

\* device_info.get(key)
Get(device_info, key) ==
    IF key \in DOMAIN device_info THEN device_info[key] ELSE None

\* The rows of `rows` created in the last `minutes` minutes.
Since(rows, minutes) == SelectSeq(rows, LAMBDA t : t.age <= minutes)

RECURSIVE MaxAmountOf(_)
MaxAmountOf(rows) ==
    IF Len(rows) = 1 THEN rows[1].amount
    ELSE LET m == MaxAmountOf(Tail(rows))
         IN  IF rows[1].amount > m THEN rows[1].amount ELSE m

Min(a, b) == IF a < b THEN a ELSE b

Returned(value) == [raised |-> "", value |-> value]
Raised(exception) == [raised |-> exception, value |-> 0]

\* FraudDetectionService._analyze_amount.  With more than one row the
\* variance, a Decimal, is raised to the float power 0.5, and above the
\* maximum the Decimal ratio is multiplied by the float 0.8: Python raises
\* TypeError for both (after DivisionByZero when the maximum is 0).
AnalyzeAmount(amount, rows) ==
    IF rows = <<>> THEN Returned(50)
    ELSE IF Len(rows) > 1 THEN Raised("TypeError")
    ELSE IF amount > MaxAmountOf(rows)
    THEN IF MaxAmountOf(rows) = 0 THEN Raised("DivisionByZero")
         ELSE Raised("TypeError")
    ELSE Returned(0)

\* _analyze_frequency giving 0.5 whenever the 7-day count is zero.
AnalyzeFrequencyAlwaysHalf(all_rows) ==
    LET recent_count == Len(Since(all_rows, HourMinutes))
        week_count   == Len(Since(all_rows, WeekMinutes))
    IN  IF week_count = 0
        THEN 50
        ELSE Min(100, (recent_count * 24 * 7 * 20) \div week_count)

\* FraudDetectionService._analyze_frequency
AnalyzeFrequency(all_rows) ==
    LET recent_count == Len(Since(all_rows, HourMinutes))
        week_count   == Len(Since(all_rows, WeekMinutes))
    IN  IF week_count = 0
        THEN IF recent_count > 3 THEN 50 ELSE 0
        ELSE Min(100, (recent_count * 24 * 7 * 20) \div week_count)

\* FraudDetectionService._analyze_device
AnalyzeDevice(registry, device_info) ==
    IF Get(device_info, "device_id") \notin DOMAIN registry THEN 80
    ELSE LET known_device == registry[Get(device_info, "device_id")]
         IN  IF known_device.fingerprint # Get(device_info, "fingerprint")
             THEN 90
             ELSE IF known_device.last_used > MonthMinutes THEN 40
             ELSE 0

\* FraudDetectionService._analyze_patterns
AnalyzePatterns(amount, transaction_type, rows) ==
    LET recent_similar ==
            SelectSeq(rows, LAMBDA t : /\ t.type = transaction_type
                                       /\ t.age <= RecentSimilarMinutes)
        of_type == SelectSeq(rows, LAMBDA t : t.type = transaction_type)
        total_transactions == IF rows # <<>> THEN Len(rows) ELSE 1
    IN  Min(100,
            (IF Len(recent_similar) > 2 THEN 30 ELSE 0)
            + (IF Len(of_type) * 10 < total_transactions THEN 20 ELSE 0)
            + (IF amount % 100 = 0 /\ amount > 1000 THEN 10 ELSE 0))

NoAnalysis ==
    [done |-> FALSE, call |-> "", headers |-> NoHeaders, raised |-> "",
     amount |-> 0, type |-> "",
     device_info |-> [device_id |-> "", fingerprint |-> ""],
     amount_score |-> 0, frequency_score |-> 0, device_score |-> 0,
     pattern_score |-> 0, risk_score |-> 0]

\* analyze_transaction without the 30-day filter on the history.
AnalyzeTransactionAllRows(all_rows, registry, amount, transaction_type, device_info) ==
    LET recent_transactions == all_rows
        a == AnalyzeAmount(amount, recent_transactions)
        f == AnalyzeFrequency(all_rows)
        d == AnalyzeDevice(registry, device_info)
        p == AnalyzePatterns(amount, transaction_type, recent_transactions)
        about == [done |-> TRUE, call |-> "analyze_transaction",
                  headers |-> NoHeaders, amount |-> amount,
                  type |-> transaction_type, device_info |-> device_info]
    IN  IF a.raised # ""
        THEN about @@ [raised |-> a.raised, amount_score |-> 0,
                       frequency_score |-> 0, device_score |-> 0,
                       pattern_score |-> 0, risk_score |-> 0]
        ELSE about @@
             [raised |-> "", amount_score |-> a.value, frequency_score |-> f,
              device_score |-> d, pattern_score |-> p,
              risk_score |->
                  Min(a.value * Weights.amount + f * Weights.frequency
                      + d * Weights.device + p * Weights.pattern,
                      10000)]

\* FraudDetectionService.analyze_transaction: the sub-scores in hundredths
\* and the returned score in ten-thousandths, or the exception raised.
AnalyzeTransaction(all_rows, registry, amount, transaction_type, device_info) ==
    LET recent_transactions == Since(all_rows, MonthMinutes)
        a == AnalyzeAmount(amount, recent_transactions)
        f == AnalyzeFrequency(all_rows)
        d == AnalyzeDevice(registry, device_info)
        p == AnalyzePatterns(amount, transaction_type, recent_transactions)
        about == [done |-> TRUE, call |-> "analyze_transaction",
                  headers |-> NoHeaders, amount |-> amount,
                  type |-> transaction_type, device_info |-> device_info]
    IN  IF a.raised # ""
        THEN about @@ [raised |-> a.raised, amount_score |-> 0,
                       frequency_score |-> 0, device_score |-> 0,
                       pattern_score |-> 0, risk_score |-> 0]
        ELSE about @@
             [raised |-> "", amount_score |-> a.value, frequency_score |-> f,
              device_score |-> d, pattern_score |-> p,
              risk_score |->
                  Min(a.value * Weights.amount + f * Weights.frequency
                      + d * Weights.device + p * Weights.pattern,
                      10000)]

\* The high risk threshold of the create_transaction endpoint (line 47),
\* for a score in ten-thousandths.
FraudSuspected(fraud_score) == fraud_score > FraudThreshold * 100

\* The fraud check of POST /transactions/ (transactions.py 27-51): the
\* endpoint builds device_info from the request (28-33), builds the services
\* (36), reads transaction_in.transaction_type (43), calls
\* analyze_transaction with the device_info (39-45) and refuses a score
\* above the threshold (47-51).  detail is the exception that ends the
\* request there, "" when the request goes on to line 54.
EndpointFraudCheck(all_rows, registry, amount, transaction_type, headers) ==
    LET device_info == EndpointDeviceInfo(headers)
        unanalysed(detail) ==
            [NoAnalysis EXCEPT !.done = TRUE, !.raised = "AttributeError",
                               !.amount = amount, !.type = transaction_type]
            @@ [detail |-> detail]
        a == AnalyzeTransaction(all_rows, registry, amount, transaction_type,
                                device_info)
    IN  IF TransactionServiceInit # "ok"
        THEN unanalysed(TransactionServiceInit)
        ELSE IF "transaction_type" \notin TransactionCreateFields
        THEN unanalysed(
            "'TransactionCreate' object has no attribute 'transaction_type'")
        ELSE IF a.raised # ""
        THEN a @@ [detail |-> a.raised]
        ELSE IF FraudSuspected(a.risk_score)
        THEN a @@ [detail |-> "Transaction flagged as potentially fraudulent"]
        ELSE a @@ [detail |-> ""]

\* The rows of the transactions table that the queries of the fraud service
\* select for the user (fraud_detection.py 30-33, 77-86), the oldest first,
\* with the ages they can have at the time of the request.  The clock of the
\* ledger counts days and created_at is an instant: a row created d calendar
\* days before today is more than d - 1 and less than d + 1 days old, and a
\* row is never younger than one created after it.
HistoriesOf(txs, user_id, day) ==
    LET own == SelectSeq(txs, LAMBDA t : t.user_id = user_id)
        AgesOf(d) ==
            {a \in Ages \cup {0, 2 * HourMinutes, d * 24 * 60} :
                /\ a > (d - 1) * 24 * 60
                /\ a < (d + 1) * 24 * 60}
    IN  {[i \in DOMAIN own |->
             [amount |-> own[i].amount, type |-> own[i].type, age |-> g[i]]] :
         g \in {f \in [DOMAIN own ->
                         UNION {AgesOf(day - own[i].created_at) :
                                    i \in DOMAIN own}] :
                   /\ \A i \in DOMAIN own :
                          f[i] \in AgesOf(day - own[i].created_at)
                   /\ \A i, j \in DOMAIN own : i < j => f[i] >= f[j]}}

\* POST /transactions/ (transactions.py 17-60): the fraud check (lines
\* 27-51) on all_rows, the user's transactions as its queries find them,
\* then TransactionService.create_transaction (line 54).
EndpointCreateTransaction(accts, txs, day, u, data, all_rows, registry, headers) ==
    LET check == EndpointFraudCheck(all_rows, registry, data.amount,
                                    data.type, headers)
    IN  IF check.detail # ""
        THEN [result |-> check.detail, accounts |-> accts,
              transactions |-> txs, tx |-> 0, committed |-> FALSE]
        ELSE ServiceCreateTransaction(accts, txs, day, u, data)

InitBank ==
    /\ accounts = <<>>
    /\ account_seq = 0
    /\ transactions = <<>>
    /\ today = 0
    /\ sess = [w \in Workers |-> Idle]
    /\ last = NoRequest
    /\ prev = <<>>
    /\ ledger = <<>>

InitLimiter ==
    /\ requests = <<>>
    /\ blocked_ips = <<>>
    /\ now = 0
    /\ environment = "production"
    /\ response = NoResponse
    /\ sent = <<>>
    /\ tasks = [k \in Tasks |-> IdleTask]

Init ==
    /\ InitBank
    /\ InitLimiter
    /\ history = <<>>
    /\ devices = <<>>
    /\ analysis = NoAnalysis

\* The fraud analysis is a function of the user's history and devices: any
\* of them may be what the database holds when it is called.
InitFraud ==
    /\ InitBank
    /\ InitLimiter
    /\ history \in Histories
    /\ devices \in Registries
    /\ analysis = NoAnalysis

\* POST /accounts/ -> AccountService.create: the table issues the next id.
OpenAccount(u, initial_balance) ==
    /\ Unobserved
    /\ account_seq < MaxAccounts
    /\ account_seq' = account_seq + 1
    /\ accounts' = SetItem(accounts, account_seq + 1,
                           NewAccount(account_seq + 1, u, initial_balance))
    /\ ledger' = SetItem(ledger, account_seq + 1, initial_balance)
    /\ Observe(Request("open", "ok", u, account_seq + 1, initial_balance,
                       "", 0, <<>>, 0))
    /\ UNCHANGED <<transactions, today, sess>>

\* AccountService.delete, which no endpoint calls.
DeleteAccount(a) ==
    /\ Unobserved
    /\ LET r == DeleteRow(accounts, transactions, a)
       IN  /\ accounts' = r.accounts
           /\ ledger' = [i \in DOMAIN r.accounts |-> ledger[i]]
           /\ Observe(Request("delete", r.result, 0, a, 0, "", 0, <<>>, 0))
    /\ UNCHANGED <<account_seq, transactions, today, sess>>

\* The ownership check the account endpoints share (accounts.py).
AccountAccess(u, a) ==
    IF a \notin DOMAIN accounts THEN "Account not found"
    ELSE IF accounts[a].user_id # u THEN "Not enough permissions"
    ELSE "ok"

\* POST /accounts/{account_id}/transaction -> AccountService.update_balance
EndpointAccountTransaction(accts, u, a, amount, operation) ==
    IF a \notin DOMAIN accts
    THEN [result |-> "Account not found", accounts |-> accts]
    ELSE IF accts[a].user_id # u
    THEN [result |-> "Not enough permissions", accounts |-> accts]
    ELSE IF accts[a].status # "active"
    THEN [result |-> "Account is not active", accounts |-> accts]
    ELSE UpdateBalance(accts, a, amount, operation)

AccountTransaction(u, a, amount, operation) ==
    /\ Unobserved
    /\ LET r == EndpointAccountTransaction(accounts, u, a, amount, operation)
       IN  /\ InRange(r.accounts)
           /\ accounts' = r.accounts
           /\ ledger' = Applied(accounts, r.accounts)
           /\ Observe(Request("account_transaction", r.result, u, a, amount,
                              operation, 0, <<>>, 0))
    /\ UNCHANGED <<transactions, today, account_seq, sess>>

\* POST /transactions/
CreateTransaction(u, data, headers) ==
    /\ Unobserved
    /\ \E all_rows \in HistoriesOf(transactions, u, today) :
       LET r == EndpointCreateTransaction(accounts, transactions, today, u,
                                          data, all_rows, devices, headers)
           check == EndpointFraudCheck(all_rows, devices, data.amount,
                                       data.type, headers)
           fraud_score == IF check.raised = "" THEN <<check.risk_score>>
                          ELSE <<>>
       IN  /\ Len(r.transactions) <= MaxTx
           /\ InRange(r.accounts)
           /\ accounts' = r.accounts
           /\ transactions' = r.transactions
           /\ ledger' = Applied(accounts, r.accounts)
           /\ Observe(Request("create", r.result, u, data.account_id,
                              data.amount, data.type, data.recipient_account,
                              fraud_score, r.tx))
    /\ UNCHANGED <<today, account_seq, sess>>

\* TransactionService.create_transaction (transaction_service.py), the
\* method itself, called on a TransactionService that has its
\* notification_service.
ServiceCreate(u, data) ==
    /\ Unobserved
    /\ LET r == ServiceCreateTransaction(accounts, transactions, today, u, data)
       IN  /\ Len(r.transactions) <= MaxTx
           /\ InRange(r.accounts)
           /\ accounts' = r.accounts
           /\ transactions' = r.transactions
           /\ ledger' = Applied(accounts, r.accounts)
           /\ Observe(Request("create_transaction", r.result, u,
                              data.account_id, data.amount, data.type,
                              data.recipient_account, <<>>, r.tx))
    /\ UNCHANGED <<today, account_seq, sess>>

\* PUT /accounts/{account_id}/status -> AccountService.update_status
UpdateStatus(u, a, status) ==
    /\ Unobserved
    /\ LET detail == AccountAccess(u, a)
       IN  /\ accounts' = IF detail = "ok"
                          THEN UpdateStatusRow(accounts, a, status)
                          ELSE accounts
           /\ Observe(Request("update_status", detail, u, a, 0, status,
                              0, <<>>, 0))
    /\ UNCHANGED <<transactions, today, account_seq, sess, ledger>>

\* PUT /accounts/{account_id}/limits -> AccountService.update_limits
UpdateLimits(u, a, daily_transfer_limit, withdrawal_limit) ==
    /\ Unobserved
    /\ LET detail == AccountAccess(u, a)
       IN  /\ accounts' = IF detail = "ok"
                          THEN UpdateLimitsRow(accounts, a,
                                               daily_transfer_limit,
                                               withdrawal_limit)
                          ELSE accounts
           /\ Observe(Request("update_limits", detail, u, a, 0, "", 0, <<>>,
                              0))
    /\ UNCHANGED <<transactions, today, account_seq, sess, ledger>>

\* TransactionService.create_transaction (transaction.py)
CreatePending(u, a, amount, transaction_type) ==
    /\ Unobserved
    /\ Len(transactions) < MaxTx
    /\ a \in DOMAIN accounts
    /\ transactions' =
           Append(transactions,
                  NewPendingTransaction(Len(transactions) + 1, u, a, amount,
                                        transaction_type, today))
    /\ Observe(Request("create_pending", "ok", u, a, amount, transaction_type,
                       0, <<>>, Len(transactions) + 1))
    /\ UNCHANGED <<accounts, today, account_seq, sess, ledger>>

\* TransactionService.process_transaction (transaction.py)
ProcessTransaction(t) ==
    /\ Unobserved
    /\ t \in DOMAIN transactions
    /\ LET r  == ProcessTransactionRows(accounts, transactions, t)
           tx == transactions[t]
       IN  /\ InRange(r.accounts)
           /\ accounts' = r.accounts
           /\ transactions' = r.transactions
           /\ ledger' = Applied(accounts, r.accounts)
           /\ Observe(Request("process", r.result, tx.user_id, tx.account_id,
                              tx.amount, tx.type, tx.recipient_account, <<>>,
                              t))
    /\ UNCHANGED <<today, account_seq, sess>>

\* TransactionService.flag_suspicious_transaction (transaction.py)
FlagSuspiciousTransaction(t) ==
    /\ Unobserved
    /\ t \in DOMAIN transactions
    /\ transactions' = FlagRows(transactions, t)
    /\ Observe(Request("flag", "ok", transactions[t].user_id,
                       transactions[t].account_id, transactions[t].amount,
                       transactions[t].type, 0, <<>>, t))
    /\ UNCHANGED <<accounts, today, account_seq, sess, ledger>>

\* POST /transactions/{transaction_id}/cancel
CancelTransaction(t, u) ==
    /\ Unobserved
    /\ LET r == EndpointCancelTransaction(transactions, t, u)
       IN  /\ transactions' = r.transactions
           /\ Observe(Request("cancel", r.result, u, 0, 0, "", 0, <<>>, t))
    /\ UNCHANGED <<accounts, today, account_seq, sess, ledger>>

\* TransactionService.cancel_transaction (transaction_service.py), the
\* method itself, called on a TransactionService that has its
\* notification_service.
ServiceCancel(t, u) ==
    /\ Unobserved
    /\ LET r == CancelRows(transactions, t, u)
       IN  /\ transactions' = r.transactions
           /\ Observe(Request("cancel_transaction", r.result, u, 0, 0, "", 0,
                              <<>>, t))
    /\ UNCHANGED <<accounts, today, account_seq, sess, ledger>>

\* The server clock passes midnight.
AdvanceDay ==
    /\ Unobserved
    /\ today < MaxDay
    /\ today' = today + 1
    /\ UNCHANGED <<accounts, account_seq, transactions, sess, ledger, last,
                   prev>>

(***************************************************************************)
(* Requests handled concurrently.  Each request has its own Session         *)
(* (db/session.py, get_db): it SELECTs the rows it needs, computes the new  *)
(* balances in memory, and commit() writes the computed values back.  No    *)
(* statement locks a row (there is no with_for_update) and nothing checks a *)
(* version, so between a request's read and its commit other requests may   *)
(* read and commit.                                                         *)
(***************************************************************************)

\* The rows a unit of work has changed in memory, and by how much.
Dirty(before, after) ==
    {i \in DOMAIN before : after[i].balance # before[i].balance}

UnitOfWork(before, after, txs) ==
    [pc |-> "commit",
     writes |-> [i \in Dirty(before, after) |-> after[i].balance],
     deltas |-> [i \in Dirty(before, after) |->
                    after[i].balance - before[i].balance],
     inserts |-> txs]

InFlightInserts ==
    Cardinality({w \in Workers : sess[w].pc = "commit" /\ sess[w].inserts # <<>>})

\* A worker starts POST /accounts/{account_id}/transaction: the endpoint's
\* checks and update_balance up to, not including, db.commit().
BeginAccountTransaction(w, u, a, amount, operation) ==
    /\ Unobserved
    /\ sess[w].pc = "idle"
    /\ LET r == EndpointAccountTransaction(accounts, u, a, amount, operation)
       IN  /\ InRange(r.accounts)
           /\ sess' = [sess EXCEPT ![w] =
                          IF r.result = "ok"
                          THEN UnitOfWork(accounts, r.accounts, <<>>)
                          ELSE Idle]
    /\ UNCHANGED <<accounts, transactions, today, account_seq, last, prev, ledger>>

\* A worker starts TransactionService.create_transaction
\* (transaction_service.py): the SELECT of the account (line 26) and what the
\* method computes from that row alone.  A withdrawal, a deposit and a type
\* with no settlement go on to db.commit(); a transfer has two more SELECTs
\* to make.
BeginCreateTransaction(w, u, data) ==
    /\ Unobserved
    /\ sess[w].pc = "idle"
    /\ LET a == data.account_id
           r == ServiceCreateTransaction(accounts, transactions, today, u, data)
       IN  IF /\ data.type = "transfer"
              /\ a \in DOMAIN accounts
              /\ accounts[a].user_id = u
              /\ accounts[a].status = "active"
           THEN sess' = [sess EXCEPT ![w] =
                            [pc |-> "limits", user_id |-> u, data |-> data,
                             account |-> accounts[a]]]
           ELSE /\ r.committed =>
                       Len(transactions) + InFlightInserts < MaxTx
                /\ InRange(r.accounts)
                /\ sess' = [sess EXCEPT ![w] =
                               IF r.committed
                               THEN UnitOfWork(accounts, r.accounts,
                                               <<r.transactions[r.tx]>>)
                               ELSE Idle]
    /\ UNCHANGED <<accounts, transactions, today, account_seq, last, prev, ledger>>

\* create_transaction of a transfer: _validate_transaction_limits SELECTs
\* the account's transfers of today (line 84) and compares their sum with
\* the limit of the account row read before; _process_transfer then tests
\* that row's balance (line 114).
SelectTodayTransfers(w) ==
    /\ sess[w].pc = "limits"
    /\ LET data == sess[w].data
           tx   == NewTransaction(0, sess[w].user_id, data, today)
       IN  sess' = [sess EXCEPT ![w] =
                       IF ValidateTransactionLimits(
                              sess[w].account, data.account_id, transactions,
                              today, tx) # "ok"
                       THEN Idle
                       ELSE IF sess[w].account.balance < data.amount
                       THEN Idle
                       ELSE [@ EXCEPT !.pc = "recipient"]]
    /\ UNCHANGED <<accounts, transactions, today, account_seq, last, prev, ledger>>

\* create_transaction of a transfer: _process_transfer SELECTs the recipient
\* (line 118) and computes the two balances, the source's from the row read
\* at line 26 (the Session hands out that same object when the recipient is
\* the source), the recipient's from the row read now.
SelectRecipient(w) ==
    /\ sess[w].pc = "recipient"
    /\ LET data == sess[w].data
           a    == data.account_id
           seen == [accounts EXCEPT ![a] = sess[w].account]
           tx   == NewTransaction(0, sess[w].user_id, data, today)
           r    == ProcessTransfer(seen, tx, a)
       IN  /\ r.result = "ok" =>
                   Len(transactions) + InFlightInserts < MaxTx
           /\ InRange(r.accounts)
           /\ sess' = [sess EXCEPT ![w] =
                          IF r.result = "ok"
                          THEN UnitOfWork(seen, r.accounts, <<r.tx>>)
                          ELSE Idle]
    /\ UNCHANGED <<accounts, transactions, today, account_seq, last, prev, ledger>>

\* db.commit(): the UPDATEs set each changed row's balance to the value the
\* request computed and the INSERT adds its transaction.  `ledger` takes
\* the mutation the request has computed and now committed.
Commit(w) ==
    /\ Unobserved
    /\ sess[w].pc = "commit"
    /\ accounts' = [i \in DOMAIN accounts |->
                       IF i \in DOMAIN sess[w].writes
                       THEN [accounts[i] EXCEPT !.balance = sess[w].writes[i]]
                       ELSE accounts[i]]
    /\ ledger' = [i \in DOMAIN ledger |->
                     IF i \in DOMAIN sess[w].deltas
                     THEN ledger[i] + sess[w].deltas[i]
                     ELSE ledger[i]]
    /\ transactions' =
           transactions \o
           [k \in DOMAIN sess[w].inserts |->
               [sess[w].inserts[k] EXCEPT !.reference_id = Len(transactions) + k]]
    /\ \A i \in DOMAIN ledger :
           /\ ledger'[i] - accounts'[i].balance <= MaxAmount
           /\ accounts'[i].balance - ledger'[i] <= MaxAmount
    /\ sess' = [sess EXCEPT ![w] = Idle]
    /\ UNCHANGED <<today, account_seq, last, prev>>

\* Requests that move money, as they are sent concurrently: the transaction
\* types that create_transaction settles, with amounts up to
\* MaxConcurrentAmount.
SettledData ==
    {d \in TransactionData :
        /\ d.amount \in 1..MaxConcurrentAmount
        /\ d.type \in {"withdrawal", "deposit", "transfer"}}

NextConcurrent ==
    /\ UNCHANGED <<limiterVars, fraudVars>>
    /\ \/ \E u \in Holders, amt \in InitialBalances : OpenAccount(u, amt)
       \/ \E w \in Workers, u \in Holders, a \in AccountIds,
             amt \in 1..MaxConcurrentAmount, op \in Operations :
              BeginAccountTransaction(w, u, a, amt, op)
       \/ \E w \in Workers, u \in Holders, data \in SettledData :
              BeginCreateTransaction(w, u, data)
       \/ \E w \in Workers : SelectTodayTransfers(w)
       \/ \E w \in Workers : SelectRecipient(w)
       \/ \E w \in Workers : Commit(w)

SpecConcurrent == Init /\ [][NextConcurrent]_vars

\* The HTTP API: every endpoint of accounts.py and transactions.py that
\* changes an account or a transaction.
Next ==
    /\ UNCHANGED <<limiterVars, fraudVars>>
    /\ \/ \E u \in Holders, amt \in InitialBalances : OpenAccount(u, amt)
       \/ \E u \in Users, a \in AccountIds, amt \in Amounts, op \in Operations :
              AccountTransaction(u, a, amt, op)
       \/ \E u \in Users, a \in AccountIds, status \in StatusInputs :
              UpdateStatus(u, a, status)
       \/ \E u \in Users, a \in AccountIds, d \in LimitInputs, l \in LimitInputs :
              UpdateLimits(u, a, d, l)
       \/ \E u \in Users, data \in TransactionData, device \in DeviceIds :
              CreateTransaction(u, data, [device_id |-> device,
                                          fingerprint |-> None])
       \/ \E t \in 1..MaxTx, u \in Users : CancelTransaction(t, u)

Spec == Init /\ [][Next]_vars

\* The methods of the TransactionService of transaction_service.py called
\* one at a time on an instance that has its notification_service, next to
\* the limits endpoint and AccountService.delete.
NextService ==
    /\ UNCHANGED <<limiterVars, fraudVars>>
    /\ \/ \E u \in Holders, amt \in InitialBalances : OpenAccount(u, amt)
       \/ \E u \in Holders, a \in AccountIds, l \in LimitInputs :
              UpdateLimits(u, a, l, l)
       \/ \E a \in AccountIds : DeleteAccount(a)
       \/ \E u \in Users, data \in TransactionData : ServiceCreate(u, data)
       \/ \E t \in 1..MaxTx, u \in Users : ServiceCancel(t, u)

SpecService == Init /\ [][NextService]_vars

TransferData == {d \in TransactionData : d.type = "transfer"}

\* The two-stage path of services/transaction.py, which no endpoint calls (a
\* Pending row is stored first and settled, flagged or cancelled later),
\* next to the cancel endpoint, the methods of transaction_service.py that
\* create a transfer and cancel, AccountService.delete and the server clock.
NextSettle ==
    /\ UNCHANGED <<limiterVars, fraudVars>>
    /\ \/ \E u \in Holders, amt \in InitialBalances : OpenAccount(u, amt)
       \/ \E u \in Holders, a \in AccountIds, l \in LimitInputs :
              UpdateLimits(u, a, l, l)
       \/ \E a \in AccountIds : DeleteAccount(a)
       \/ \E u \in Holders, a \in AccountIds, amt \in Amounts, type \in TypeInputs :
              CreatePending(u, a, amt, type)
       \/ \E t \in 1..MaxTx : ProcessTransaction(t)
       \/ \E t \in 1..MaxTx : FlagSuspiciousTransaction(t)
       \/ \E t \in 1..MaxTx, u \in Users : CancelTransaction(t, u)
       \/ \E t \in 1..MaxTx, u \in Users : ServiceCancel(t, u)
       \/ \E u \in Holders, data \in TransferData : ServiceCreate(u, data)
       \/ AdvanceDay

SpecSettle == Init /\ [][NextSettle]_vars

\* Transaction creation against accounts in every status the status endpoint
\* can set, and against accounts that were deleted.
NextAccess ==
    /\ UNCHANGED <<limiterVars, fraudVars>>
    /\ \/ \E u \in Holders, amt \in InitialBalances : OpenAccount(u, amt)
       \/ \E a \in AccountIds : DeleteAccount(a)
       \/ \E u \in Users, a \in AccountIds, status \in AccountStatus :
              UpdateStatus(u, a, status)
       \/ \E u \in Users, data \in TransactionData, device \in DeviceIds :
              CreateTransaction(u, data, [device_id |-> device,
                                          fingerprint |-> None])

SpecAccess == Init /\ [][NextAccess]_vars

(***************************************************************************)
(* cancel_transaction and process_transaction handled concurrently, each   *)
(* in its own Session: between the SELECT of one and its commit the other  *)
(* may read and commit.  A request that has started finishes even after    *)
(* the observed one.                                                       *)
(***************************************************************************)

\* cancel_transaction up to, not including, db.commit() (lines 170-180).
BeginCancel(w, t, u) ==
    /\ Unobserved
    /\ sess[w].pc = "idle"
    /\ sess' = [sess EXCEPT ![w] =
                    IF CancelRows(transactions, t, u).committed
                    THEN [pc |-> "cancel", tx |-> t]
                    ELSE Idle]
    /\ UNCHANGED <<accounts, transactions, today, account_seq, last, prev, ledger>>

\* cancel_transaction: db.commit() writes the status (line 181).
CommitCancel(w) ==
    /\ sess[w].pc = "cancel"
    /\ transactions' =
           [transactions EXCEPT ![sess[w].tx].status = "cancelled"]
    /\ sess' = [sess EXCEPT ![w] = Idle]
    /\ UNCHANGED <<accounts, today, account_seq, last, prev, ledger>>

\* process_transaction: the transaction is read (line 87).
BeginProcess(w, t) ==
    /\ Unobserved
    /\ sess[w].pc = "idle"
    /\ t \in DOMAIN transactions
    /\ sess' = [sess EXCEPT ![w] =
                    [pc |-> "process", tx |-> t, row |-> transactions[t]]]
    /\ UNCHANGED <<accounts, transactions, today, account_seq, last, prev, ledger>>

\* process_transaction calls update_balance (lines 89-101), which SELECTs
\* the account (account.py 73) and computes the balance; a debit of more
\* than the balance read raises, and nothing is written.
SelectAccount(w) ==
    /\ Unobserved
    /\ sess[w].pc = "process"
    /\ LET tx == sess[w].row
           r  == UpdateBalance(accounts, tx.account_id, tx.amount,
                               OperationOf(tx.type))
       IN  /\ InRange(r.accounts)
           /\ IF r.result = "ok"
              THEN /\ sess' = [sess EXCEPT ![w] =
                                  [pc |-> "settle", tx |-> sess[w].tx,
                                   row |-> tx,
                                   read |-> accounts[tx.account_id].balance,
                                   balance |->
                                       r.accounts[tx.account_id].balance]]
                   /\ UNCHANGED <<last, prev>>
              ELSE /\ sess' = [sess EXCEPT ![w] =
                                  [pc |-> "finish", tx |-> sess[w].tx,
                                   row |-> tx, result |-> r.result]]
                   /\ Observe(Request("process", r.result, tx.user_id,
                                      tx.account_id, tx.amount, tx.type,
                                      tx.recipient_account, <<>>,
                                      sess[w].tx))
    /\ UNCHANGED <<accounts, transactions, today, account_seq, ledger>>

\* update_balance: db.commit() (account.py 82) sets the account's balance to
\* the value computed from the balance read.
SettleProcess(w) ==
    /\ Unobserved
    /\ sess[w].pc = "settle"
    /\ LET tx == sess[w].row
       IN  /\ accounts' = [accounts EXCEPT
                              ![tx.account_id].balance = sess[w].balance]
           /\ ledger' = [ledger EXCEPT
                            ![tx.account_id] =
                                @ + (sess[w].balance - sess[w].read)]
           /\ sess' = [sess EXCEPT ![w] =
                           [pc |-> "finish", tx |-> sess[w].tx,
                            row |-> tx, result |-> "ok"]]
           /\ Observe(Request("process", "ok", tx.user_id, tx.account_id,
                              tx.amount, tx.type, tx.recipient_account, <<>>,
                              sess[w].tx))
    /\ UNCHANGED <<transactions, today, account_seq>>

\* process_transaction: the status is set and committed (lines 103-114).
\* The UPDATE of the commit sets the columns whose value differs from the
\* one the session loaded.  After the commit of update_balance the loaded
\* row is expired, so Completed is always written; on the failure path the
\* row is the one read at line 87, and Failed and the reason are written
\* only where that row held something else.
FinishProcess(w) ==
    /\ sess[w].pc = "finish"
    /\ transactions' =
           IF sess[w].result = "ok"
           THEN [transactions EXCEPT ![sess[w].tx].status = "completed"]
           ELSE [transactions EXCEPT
                    ![sess[w].tx].status =
                        IF sess[w].row.status # "failed" THEN "failed" ELSE @,
                    ![sess[w].tx].failure_reason =
                        IF sess[w].row.failure_reason # sess[w].result
                        THEN sess[w].result ELSE @]
    /\ sess' = [sess EXCEPT ![w] = Idle]
    /\ UNCHANGED <<accounts, today, account_seq, last, prev, ledger>>

NextRace ==
    /\ UNCHANGED <<limiterVars, fraudVars>>
    /\ \/ \E u \in Holders, amt \in InitialBalances : OpenAccount(u, amt)
       \/ \E u \in Holders, a \in AccountIds, amt \in 1..MaxAmount,
             type \in {"deposit", "withdrawal"} :
              CreatePending(u, a, amt, type)
       \/ \E w \in Workers, t \in 1..MaxTx, u \in Users : BeginCancel(w, t, u)
       \/ \E w \in Workers : CommitCancel(w)
       \/ \E w \in Workers, t \in 1..MaxTx : BeginProcess(w, t)
       \/ \E w \in Workers : SelectAccount(w)
       \/ \E w \in Workers : SettleProcess(w)
       \/ \E w \in Workers : FinishProcess(w)

SpecRace == Init /\ [][NextRace]_vars


(***************************************************************************)
(* The rate limiter's steps.  The middleware calls check_rate_limit once   *)
(* per request; the background task makes a pass from time to time; the    *)
(* clock moves between them.                                               *)
(***************************************************************************)

\* APIMiddleware.dispatch -> RateLimiter.check_rate_limit
HandleRequest(c, path) ==
    /\ LET r == CheckRateLimit(environment, requests, blocked_ips, c, path, now)
       IN  /\ requests' = r.requests
           /\ blocked_ips' = r.blocked_ips
           /\ response' = [client |-> c, path |-> path, at |-> now,
                            result |-> r.result,
                            retry_after |-> r.retry_after,
                            unblocked |-> r.unblocked]
    /\ UNCHANGED <<now, environment, tasks>>

\* One pass of the background task.
CleanupOldRequests ==
    /\ LET r == CleanupPass(requests, blocked_ips, now)
       IN  /\ requests' = r.requests
           /\ blocked_ips' = r.blocked_ips
    /\ UNCHANGED <<now, environment, response, sent, tasks>>

\* time.time() moves on to a later instant.
Tick(t) ==
    /\ t > now
    /\ now' = t
    /\ UNCHANGED <<requests, blocked_ips, environment, response, sent, tasks>>

NextLimiter ==
    /\ UNCHANGED <<bankVars, fraudVars>>
    /\ \/ \E c \in Clients, path \in RequestedPaths :
              HandleRequest(c, path) /\ UNCHANGED sent
       \/ CleanupOldRequests
       \/ \E t \in TimePoints : Tick(t)

SpecLimiter == Init /\ [][NextLimiter]_vars

\* The limiter under each deployment mode: settings.ENVIRONMENT is a string
\* read from the environment of the process (config.py 12).
InitModes ==
    /\ InitBank
    /\ requests = <<>>
    /\ blocked_ips = <<>>
    /\ now = 0
    /\ environment \in Environments
    /\ response = NoResponse
    /\ sent = <<>>
    /\ tasks = [k \in Tasks |-> IdleTask]
    /\ history = <<>>
    /\ devices = <<>>
    /\ analysis = NoAnalysis

SpecModes == InitModes /\ [][NextLimiter]_vars

\* A burst: one client sends request after request to transactions
\* endpoints, a second or less apart; `sent` keeps the time of each.
TransactionsPath == [prefix |-> "/api/v1/transactions", high_value |-> FALSE]

NextBurst ==
    /\ UNCHANGED <<bankVars, fraudVars>>
    /\ \/ \E c \in Clients :
              /\ Len(sent) < MaxSent
              /\ HandleRequest(c, TransactionsPath)
              /\ sent' = Append(sent, [client |-> c, at |-> now])
       \/ \E t \in 1..BurstSeconds : Tick(t)

SpecBurst == Init /\ [][NextBurst]_vars

\* A client that alternates between two route classes, auth (5 per 60 s)
\* and high_value (5 per 300 s), during the first five minutes; `sent`
\* keeps each request with its answer.
MixedPaths ==
    {path \in Paths : GetLimit(path) \in {limits.auth, limits.high_value}}

MixedTimes == {t \in TimePoints : t <= limits.high_value[2]}

NextMixed ==
    /\ UNCHANGED <<bankVars, fraudVars>>
    /\ \/ \E c \in Clients, path \in MixedPaths :
              /\ Len(sent) < MaxMixed
              /\ HandleRequest(c, path)
              /\ sent' = Append(sent, [client |-> c, at |-> now, path |-> path,
                                       result |-> response'.result])
       \/ \E t \in MixedTimes : Tick(t)

SpecMixed == Init /\ [][NextMixed]_vars

\* Clients that send for a while and then stop.  They send at the instants
\* whose timestamps and blocks expire before the last instant of the model;
\* the clock goes on, and the background task, a `while True` loop that
\* sleeps 300 s between passes, makes a pass again and again.
RECURSIVE MaxOf(_)
MaxOf(S) ==
    LET x == CHOOSE y \in S : TRUE
    IN  IF S = {x} THEN x
        ELSE LET m == MaxOf(S \ {x}) IN IF x > m THEN x ELSE m

QuietTimes == {t \in TimePoints : t + UnblockAfter < MaxOf(TimePoints)}

NextQuiet ==
    /\ UNCHANGED <<bankVars, fraudVars>>
    /\ \/ \E c \in Clients, path \in RequestedPaths :
              /\ now \in QuietTimes
              /\ HandleRequest(c, path)
              /\ UNCHANGED sent
       \/ CleanupOldRequests
       \/ \E t \in TimePoints : Tick(t)

SpecQuiet ==
    /\ Init
    /\ [][NextQuiet]_vars
    /\ WF_limiterVars(CleanupOldRequests)
    /\ WF_limiterVars(\E t \in TimePoints : Tick(t))

\* Requests in flight at once.  The middleware of each awaits
\* check_rate_limit (middleware.py 29); the loop runs a coroutine from where
\* it stands to its next suspension or its end, then another one, or a pass
\* of the background task, which suspends in its sleep (line 42) only.
Arrive(k, c, path) ==
    /\ tasks[k].pc = "idle"
    /\ tasks' = [tasks EXCEPT ![k] =
                     [pc |-> "check", client |-> c, path |-> path,
                      current_time |-> 0, result |-> ""]]
    /\ UNCHANGED <<requests, blocked_ips, now, environment, response, sent>>

Run(k) ==
    /\ tasks[k].pc \in {"check", "append"}
    /\ LET c == tasks[k].client
           path == tasks[k].path
           r == CheckRateLimit(environment, requests, blocked_ips, c, path, now)
       IN  IF tasks[k].pc = "append"
           THEN /\ requests' =
                       SetItem(requests, c,
                               Append(RequestsOf(requests, c),
                                      tasks[k].current_time))
                /\ tasks' = [tasks EXCEPT ![k].pc = "done",
                                          ![k].result = Admitted]
                /\ UNCHANGED blocked_ips
           ELSE IF /\ r.result = Admitted
                   /\ environment # "development"
                   /\ Suspends("append")
           THEN /\ requests' = Purged(requests, c, path, now)
                /\ blocked_ips' = r.blocked_ips
                /\ tasks' = [tasks EXCEPT ![k].pc = "append",
                                          ![k].current_time = now]
           ELSE /\ requests' = r.requests
                /\ blocked_ips' = r.blocked_ips
                /\ tasks' = [tasks EXCEPT ![k].pc = "done",
                                          ![k].current_time = now,
                                          ![k].result = r.result]
    /\ UNCHANGED <<now, environment, response, sent>>

\* The response of a finished request is sent.
Return(k) ==
    /\ tasks[k].pc = "done"
    /\ tasks' = [tasks EXCEPT ![k] = IdleTask]
    /\ UNCHANGED <<requests, blocked_ips, now, environment, response, sent>>

TaskPaths ==
    {path \in Paths : GetLimit(path) \in {limits.auth, limits.transactions}}

\* The instants of these runs: the start, and later than the end of a block
\* made at the start.
TaskTimes == {t \in TimePoints : t = 0 \/ t > UnblockAfter}

NextTasks ==
    /\ UNCHANGED <<bankVars, fraudVars>>
    /\ \/ \E k \in Tasks, c \in Clients, path \in TaskPaths : Arrive(k, c, path)
       \/ \E k \in Tasks : Run(k)
       \/ \E k \in Tasks : Return(k)
       \/ CleanupOldRequests
       \/ \E t \in TaskTimes : Tick(t)

SpecTasks == Init /\ [][NextTasks]_vars

\* analyze_transaction, called for a candidate transaction.
Analyze(amount, transaction_type, device_info) ==
    /\ ~analysis.done
    /\ analysis' = AnalyzeTransaction(history, devices, amount,
                                      transaction_type, device_info)
    /\ UNCHANGED <<history, devices>>

NextFraud ==
    /\ UNCHANGED <<bankVars, limiterVars>>
    /\ \E amount \in FraudAmounts, type \in FraudTypes, info \in DeviceInfos :
           Analyze(amount, type, info)

SpecFraud == InitFraud /\ [][NextFraud]_vars

AnalyzeRequest(amount, transaction_type, headers) ==
    /\ ~analysis.done
    /\ analysis' =
           [EndpointFraudCheck(history, devices, amount, transaction_type,
                               headers)
               EXCEPT !.call = "create_transaction", !.headers = headers]
    /\ UNCHANGED <<history, devices>>

NextRequest ==
    /\ UNCHANGED <<bankVars, limiterVars>>
    /\ \E amount \in FraudAmounts, type \in FraudTypes,
          headers \in RequestHeaders :
           AnalyzeRequest(amount, type, headers)

SpecRequest == InitFraud /\ [][NextRequest]_vars

\* _analyze_frequency alone, on histories of up to MaxHourly rows: it reads
\* the creation times only.
FrequencyHistories ==
    {h \in UNION {[1..n -> {r \in HistoryRows :
                                r.amount = 500 /\ r.type = "deposit"}] :
                     n \in 0..MaxHourly} :
        \A i \in DOMAIN h : i > 1 => h[i - 1].age >= h[i].age}

InitFrequency ==
    /\ InitBank
    /\ InitLimiter
    /\ history \in FrequencyHistories
    /\ devices = <<>>
    /\ analysis = NoAnalysis

Frequency ==
    /\ ~analysis.done
    /\ analysis' = [NoAnalysis EXCEPT !.done = TRUE,
                                      !.call = "_analyze_frequency",
                                      !.frequency_score =
                                          AnalyzeFrequency(history)]
    /\ UNCHANGED <<history, devices>>

NextFrequency ==
    /\ UNCHANGED <<bankVars, limiterVars>>
    /\ Frequency

SpecFrequency == InitFrequency /\ [][NextFrequency]_vars

(***************************************************************************)
(* Properties.  They speak of the observed request `last`, the balances    *)
(* `prev` it found, and the tables it left.                                *)
(***************************************************************************)

BalancesUnchanged == Balances(accounts) = prev

\* The transactions table the observed request found.
PrevTransactions ==
    IF last.op \in {"create", "create_transaction", "create_pending"}
       /\ last.tx # 0
    THEN SubSeq(transactions, 1, Len(transactions) - 1)
    ELSE transactions

\* The body of the observed creation request.
LastData ==
    [account_id |-> last.account_id, amount |-> last.amount,
     type |-> last.type, recipient_account |-> last.recipient]

\* The observed request names an Active account of the caller.
OwnActiveAccount ==
    /\ last.account_id \in DOMAIN accounts
    /\ accounts[last.account_id].user_id = last.user_id
    /\ accounts[last.account_id].status = "active"

\* The observed request was given no risk score above the threshold (a
\* direct call of the method has no score).
NotFlagged == last.score = <<>> \/ ~FraudSuspected(last.score[1])

\* The observed creation request passed the fraud check and the limits.
PassedValidation ==
    /\ OwnActiveAccount
    /\ NotFlagged
    /\ ValidateTransactionLimits(
           accounts[last.account_id], last.account_id, PrevTransactions, today,
           NewTransaction(0, last.user_id, LastData, today)) = "ok"

\* The observed request and the stored transactions carry positive amounts.
PositiveAmounts ==
    /\ last.amount > 0
    /\ \A k \in DOMAIN transactions : transactions[k].amount > 0

AllIdle == \A w \in Workers : sess[w].pc = "idle"

\* C1: once every concurrently handled debit and credit has returned, each
\* account's balance is its opening balance plus the credits minus the
\* debits that reported success (no update is lost).
C1_NoLostUpdate ==
    AllIdle => \A i \in DOMAIN accounts : accounts[i].balance = ledger[i]

\* C2: a debit of more than the balance (update_balance through its
\* endpoint, or a withdrawal or transfer posted to /transactions/) fails
\* with "Insufficient funds" and changes no balance; a debit of exactly the
\* balance succeeds and leaves the account at 0.
C2_DebitOverBalance ==
    /\ ( /\ last.op = "account_transaction"
         /\ last.type = "debit"
         /\ OwnActiveAccount )
       => /\ last.amount > prev[last.account_id]
             => last.result = "Insufficient funds" /\ BalancesUnchanged
          /\ last.amount = prev[last.account_id]
             => /\ last.result = "ok"
                /\ accounts[last.account_id].balance = 0
                /\ \A i \in DOMAIN accounts :
                       i # last.account_id => accounts[i].balance = prev[i]
    /\ ( /\ last.op = "create"
         /\ last.type \in {"withdrawal", "transfer"}
         /\ last.account_id \in DOMAIN accounts
         /\ last.amount > prev[last.account_id] )
       => /\ last.result # "ok"
          /\ last.tx = 0
          /\ BalancesUnchanged
          /\ PassedValidation => last.result = "Insufficient funds"
    /\ ( /\ last.op = "create"
         /\ PassedValidation
         /\ last.amount = prev[last.account_id]
         /\ \/ last.type = "withdrawal"
            \/ /\ last.type = "transfer"
               /\ last.recipient \in DOMAIN accounts
               /\ last.recipient # last.account_id
               /\ accounts[last.recipient].status = "active" )
       => /\ last.result = "ok"
          /\ accounts[last.account_id].balance = 0

\* C3: every account's balance is >= 0 in every reachable state.
C3_BalanceNonNegative ==
    \A i \in DOMAIN accounts : accounts[i].balance >= 0

RecipientResolves == RecipientRows(accounts, last.recipient) # {}

RecipientActive ==
    \A i \in RecipientRows(accounts, last.recipient) :
        accounts[i].status = "active"

\* C5: a transfer whose recipient reference resolves to no account, or to an
\* account that is not Active, fails and changes no balance; when the source
\* has the funds and the limits are met it fails with the recipient error.
C5_RecipientInvalid ==
    ( /\ last.op = "create"
      /\ last.type = "transfer"
      /\ ~(RecipientResolves /\ RecipientActive) )
    => /\ last.result # "ok"
       /\ last.tx = 0
       /\ BalancesUnchanged
       /\ ( /\ PassedValidation
            /\ last.amount > 0
            /\ prev[last.account_id] >= last.amount )
          => last.result = IF RecipientResolves
                           THEN "Recipient account is not active"
                           ELSE "Recipient account not found"

\* C6: a transfer that reaches Completed, on either settlement path, has
\* taken its amount from the source and given it to the resolved recipient,
\* so the sum of all balances is what it was.
C6_TransferConserves ==
    ( /\ last.op \in {"create_transaction", "process"}
      /\ last.type = "transfer"
      /\ PositiveAmounts
      /\ last.tx # 0
      /\ transactions[last.tx].status = "completed" )
    => /\ SumOf(Balances(accounts)) = SumOf(prev)
       /\ RecipientResolves
       /\ \A i \in RecipientRows(accounts, last.recipient) :
              i # last.account_id
              => /\ accounts[i].balance = prev[i] + last.amount
                 /\ accounts[last.account_id].balance
                        = prev[last.account_id] - last.amount

\* C7: a withdrawal of more than the account's withdrawal limit fails with
\* the limit error and changes no balance, whatever the balance; a
\* withdrawal of exactly the limit passes the limit check.
C7_WithdrawalLimit ==
    ( /\ last.op = "create"
      /\ last.type = "withdrawal"
      /\ OwnActiveAccount
      /\ NotFlagged )
    => /\ last.amount > accounts[last.account_id].withdrawal_limit
          => /\ last.result = "Amount exceeds withdrawal limit"
             /\ last.tx = 0
             /\ BalancesUnchanged
       /\ last.amount <= accounts[last.account_id].withdrawal_limit
          => /\ last.result # "Amount exceeds withdrawal limit"
             /\ last.result = IF prev[last.account_id] < last.amount
                              THEN "Insufficient funds" ELSE "ok"

\* The sum the claim names: the account's Completed transfers of today.
CompletedTransfersToday(txs, account_id, day) ==
    LET rows == SelectSeq(txs, LAMBDA t : /\ t.account_id = account_id
                                          /\ t.type = "transfer"
                                          /\ t.status = "completed"
                                          /\ t.created_at >= day)
    IN  SumSeq([i \in DOMAIN rows |-> rows[i].amount])

\* C8: a transfer creation is rejected with the limit error exactly when the
\* account's same-day Completed transfers plus the amount exceed the daily
\* transfer limit; same-day transfers in any other status do not count.
C8_DailyLimitCompletedOnly ==
    ( /\ last.op = "create_transaction"
      /\ last.type = "transfer"
      /\ PositiveAmounts
      /\ OwnActiveAccount )
    => ( last.result = "Amount exceeds daily transfer limit"
         <=> CompletedTransfersToday(PrevTransactions, last.account_id, today)
                 + last.amount
             > accounts[last.account_id].daily_transfer_limit )

\* C9: a creation of a withdrawal or payment that create_transaction
\* accepts (it stores the transaction) has debited the account by the
\* amount, one of a deposit or interest has credited it, and the stored
\* transaction is settled (Completed or Failed), not Pending.
C9_SettledByType ==
    ( /\ last.op = "create_transaction"
      /\ last.tx # 0
      /\ PositiveAmounts
      /\ last.type \in {"withdrawal", "payment", "deposit", "interest"} )
    => /\ transactions[last.tx].status \in {"completed", "failed"}
       /\ transactions[last.tx].status = "completed"
          => accounts[last.account_id].balance
             = IF last.type \in {"withdrawal", "payment"}
               THEN prev[last.account_id] - last.amount
               ELSE prev[last.account_id] + last.amount

\* C10: when settlement fails (insufficient funds), the transaction is kept
\* with status Failed and a failure reason, and no balance has changed.
C10_FailureRetained ==
    ( /\ last.op \in {"create_transaction", "process"}
      /\ PositiveAmounts
      /\ last.result = "Insufficient funds" )
    => /\ last.tx # 0
       /\ transactions[last.tx].status = "failed"
       /\ transactions[last.tx].failure_reason # ""
       /\ BalancesUnchanged

\* C11: in every step a transaction that is not Pending (Completed, Failed,
\* Cancelled or Flagged) keeps its status, whichever of process_transaction,
\* flag_suspicious_transaction and cancel_transaction the step is.
C11_StatusOnlyFromPending ==
    [][\A t \in DOMAIN transactions :
           (transactions[t].status # "pending" /\ transactions[t].amount > 0)
           => transactions'[t].status = transactions[t].status]_vars

\* The cancellation observed in this step, a POST to the cancel endpoint, is
\* by the transaction's owner.
CancelByOwner ==
    /\ last'.op = "cancel"
    /\ last'.tx \in DOMAIN transactions
    /\ transactions[last'.tx].user_id = last'.user_id

\* C12: cancel_transaction by the owner on a transaction that is not Pending
\* fails with "Only pending transactions can be cancelled" and leaves every
\* transaction's status and every account as they were.
C12_CancelNonPending ==
    [][(CancelByOwner /\ transactions[last'.tx].status # "pending")
       => /\ last'.result = "Only pending transactions can be cancelled"
          /\ transactions' = transactions
          /\ accounts' = accounts]_vars

\* C13: cancel_transaction by the owner on a Pending transaction succeeds,
\* sets the status to Cancelled and changes no account; a creation that
\* leaves its transaction Pending has changed no balance, and no transaction
\* becomes Pending again, so a Pending transaction has no applied effect.
C13_CancelPending ==
    [][/\ (CancelByOwner /\ transactions[last'.tx].status = "pending")
          => /\ last'.result = "ok"
             /\ transactions'[last'.tx].status = "cancelled"
             /\ accounts' = accounts
       /\ ( /\ last'.op = "create_transaction"
            /\ last'.tx # 0
            /\ transactions'[last'.tx].status = "pending" )
          => accounts' = accounts
       /\ \A t \in DOMAIN transactions :
              transactions[t].status # "pending"
              => transactions'[t].status # "pending"]_vars

\* The observed creation names an account that exists and is the caller's.
OwnAccount ==
    /\ last.account_id \in DOMAIN accounts
    /\ accounts[last.account_id].user_id = last.user_id

\* C14: a creation naming an account that does not exist or is another
\* user's fails with "Account not found", one naming an own account that is
\* Inactive, Frozen or Closed fails with "Account is not active" (unless the
\* fraud check has already rejected it); no transaction is stored and no
\* balance changes.
C14_AccountErrors ==
    ( /\ last.op = "create"
      /\ ~OwnActiveAccount )
    => /\ last.result # "ok"
       /\ last.tx = 0
       /\ BalancesUnchanged
       /\ NotFlagged
          => last.result = IF OwnAccount THEN "Account is not active"
                           ELSE "Account not found"

\* The client has no block entry, or one that is an hour old or older.
NotBlocked(c) == c \in DOMAIN blocked_ips => now - blocked_ips[c] >= 3600

\* How many of the client's listed timestamps are younger than w seconds.
YoungCount(c, w) ==
    Cardinality({i \in DOMAIN RequestsOf(requests, c) :
                    now - RequestsOf(requests, c)[i] < w})

\* What check_rate_limit answers to a request of client c for `path` now.
Answer(c, path) ==
    CheckRateLimit(environment, requests, blocked_ips, c, path, now)

\* C15: for a client that is not Blocked, a request to a route class with
\* limit L and window W is admitted exactly when fewer than L of the
\* client's listed timestamps are younger than W; an admitted request is
\* recorded, a rejected one is not.
C15_AdmittedIffUnderLimit ==
    \A c \in Clients, path \in Paths :
        NotBlocked(c)
        => LET r == Answer(c, path)
               L == MaxRequestsOf(path)
               W == WindowOf(path)
           IN  /\ r.result = Admitted <=> YoungCount(c, W) < L
               /\ r.result # Admitted => r.result \in {RateLimited, NowBlocked}
               /\ Len(RequestsOf(r.requests, c))
                      = YoungCount(c, W) + IF r.result = Admitted THEN 1 ELSE 0
               /\ r.result = Admitted
                  => RequestsOf(r.requests, c)[Len(RequestsOf(r.requests, c))]
                         = now

\* The 21st request to a transactions endpoint within 60 s was rejected.
C15_Witness ==
    \E c \in Clients :
        /\ response.client = c
        /\ response.path.prefix = "/api/v1/transactions"
        /\ response.result = RateLimited
        /\ c \notin DOMAIN blocked_ips
        /\ Len(RequestsOf(requests, c)) = 20
        /\ YoungCount(c, 60) = 20

\* The requests of a burst the client sent in the last w seconds.
SentInWindow(c, w) ==
    Cardinality({i \in DOMAIN sent : sent[i].client = c /\ now - sent[i].at < w})

\* C16: a client that has sent 2*L or more requests to transactions
\* endpoints within the 60 s window (40 or more) has been promoted to Blocked.
C16_BurstBlocks ==
    \A c \in Clients :
        SentInWindow(c, 60) >= 2 * 20 => c \in DOMAIN blocked_ips

\* C17: while a client's block is less than 3600 s old, a request from it
\* for any path is rejected as blocked and changes neither the block list
\* nor the client's timestamps, and no step removes or changes the block.
C17_BlockedForAnHour ==
    [][\A c \in DOMAIN blocked_ips :
           now - blocked_ips[c] < 3600
           => /\ \A path \in Paths :
                     LET r == Answer(c, path)
                     IN  /\ r.result = StillBlocked
                         /\ r.requests = requests
                         /\ r.blocked_ips = blocked_ips
              /\ c \in DOMAIN blocked_ips'
              /\ blocked_ips'[c] = blocked_ips[c]]_vars

\* A request 3599 s into the block was rejected as blocked.
C17_Witness ==
    \E c \in Clients :
        /\ response.client = c
        /\ response.result = StillBlocked
        /\ c \in DOMAIN blocked_ips
        /\ now - blocked_ips[c] = 3599
        /\ RequestsOf(requests, c) # <<>>

\* C18: when a client's block is 3600 s old or older, its next request, for
\* any path, is admitted, the block entry is removed, and the client's list
\* holds that request's timestamp only.
C18_UnblockedAfterAnHour ==
    \A c \in DOMAIN blocked_ips :
        now - blocked_ips[c] >= 3600
        => \A path \in Paths :
               LET r == Answer(c, path)
               IN  /\ r.result = Admitted
                   /\ c \notin DOMAIN r.blocked_ips
                   /\ RequestsOf(r.requests, c) = <<now>>

\* The request that arrived exactly 3600 s after the block was admitted and
\* removed the block entry.
C18_Witness ==
    \E c \in Clients :
        /\ response.client = c
        /\ response.result = Admitted
        /\ response.unblocked
        /\ now = 3600
        /\ c \notin DOMAIN blocked_ips
        /\ requests[c] = <<now>>

\* C19: whatever the history, the amount, the type and the device, the call
\* of analyze_transaction returns a score in [0,1], and each of the four
\* sub-scores lies in [0,1].
C19_ScoreInUnitInterval ==
    analysis.done
    => /\ analysis.raised = ""
       /\ analysis.risk_score \in 0..10000
       /\ analysis.amount_score \in 0..100
       /\ analysis.frequency_score \in 0..100
       /\ analysis.device_score \in 0..100
       /\ analysis.pattern_score \in 0..100

\* C20: with an empty history, a withdrawal of 500 from an unknown device
\* gets no rare-type increment: the pattern sub-score is 0 and the score is
\* 0.15 + 0 + 0.20 + 0 = 0.35.
C20_EmptyHistoryExample ==
    ( /\ analysis.done
      /\ history = <<>>
      /\ analysis.amount = 500
      /\ analysis.type = "withdrawal"
      /\ analysis.device_info.device_id \notin DOMAIN devices )
    => /\ analysis.raised = ""
       /\ analysis.amount_score = 50
       /\ analysis.frequency_score = 0
       /\ analysis.device_score = 80
       /\ analysis.pattern_score = 0
       /\ analysis.risk_score = 3500

\* The device sub-score the spec gives a request carrying `headers`, in
\* hundredths.
SpecifiedDeviceScore(registry, headers) ==
    IF headers.device_id \notin DOMAIN registry THEN 80
    ELSE IF registry[headers.device_id].fingerprint # headers.fingerprint
    THEN 90
    ELSE IF registry[headers.device_id].last_used > MonthMinutes THEN 40
    ELSE 0

\* C21: the device sub-score of a creation request is 0.8 for a device id
\* that is not registered, 0.9 for a registered one presenting another
\* fingerprint than the registered one, 0.4 for a matching one last used
\* more than 30 days ago, and 0 otherwise (for devices registered with a
\* fingerprint, and an owner with at most one transaction in the last 30
\* days).
C21_DeviceScore ==
    ( /\ analysis.done
      /\ analysis.call = "create_transaction"
      /\ Len(Since(history, MonthMinutes)) <= 1
      /\ \A d \in DOMAIN devices : devices[d].fingerprint # None )
    => /\ analysis.raised = ""
       /\ analysis.device_score
              = SpecifiedDeviceScore(devices, analysis.headers)

\* The creation request asks for more than the highest amount of the
\* owner's last 30 days.
AboveHistory ==
    /\ Since(history, MonthMinutes) # <<>>
    /\ analysis.amount > MaxAmountOf(Since(history, MonthMinutes))

\* The risk score of such a request, in ten-thousandths: the weighted sum of
\* the amount sub-score min(1, amount / max * 0.8), the frequency sub-score,
\* the device sub-score of the device and fingerprint the request presents,
\* and the pattern sub-score.
RequestRiskScore ==
    LET rows == Since(history, MonthMinutes)
    IN  Min(10000,
            Min(100, (analysis.amount * 80) \div MaxAmountOf(rows))
                * Weights.amount
            + AnalyzeFrequency(history) * Weights.frequency
            + SpecifiedDeviceScore(devices, analysis.headers) * Weights.device
            + AnalyzePatterns(analysis.amount, analysis.type, rows)
                * Weights.pattern)

\* C4: a creation request whose risk score is above 0.8 is rejected as
\* suspected fraud, and one scoring 0.8 or less is not rejected for fraud
\* (for requests of more than the owner's highest amount of the last 30
\* days).
C4_FraudGate ==
    ( /\ analysis.done
      /\ analysis.call = "create_transaction"
      /\ AboveHistory )
    => /\ RequestRiskScore > FraudThreshold * 100
          => analysis.detail = "Transaction flagged as potentially fraudulent"
       /\ RequestRiskScore <= FraudThreshold * 100
          => analysis.detail # "Transaction flagged as potentially fraudulent"

\* The requests of client c to the route class of `path` that were admitted
\* less than `window` seconds ago.
AdmittedInWindow(c, path, window) ==
    {i \in DOMAIN sent :
        /\ sent[i].client = c
        /\ GetLimit(sent[i].path) = GetLimit(path)
        /\ sent[i].result = Admitted
        /\ now - sent[i].at < window}

\* C22: for every client and route class with limit L and window W, at most
\* L of the client's requests to that class are admitted in any interval of
\* W seconds, whatever it sends to other classes in between.
C22_AtMostLimitPerClass ==
    \A c \in Clients, path \in Paths :
        Cardinality(AdmittedInWindow(c, path, WindowOf(path)))
            <= MaxRequestsOf(path)

\* The request of this step comes exactly retry_after seconds after the
\* client's previous request, which was answered "Rate limit exceeded", and
\* goes to the same route class.
RetryAtRetryAfter ==
    /\ response.result = RateLimited
    /\ response'.client = response.client
    /\ GetLimit(response'.path) = GetLimit(response.path)
    /\ response'.at = response.at + response.retry_after

\* C23: a "Rate limit exceeded" answer carries 0 < retry_after <= W, and
\* when the client's next request is one to the same route class exactly
\* retry_after seconds later, that request is admitted.
C23_RetryAfter ==
    [][/\ response'.result = RateLimited
          => /\ response'.retry_after > 0
             /\ response'.retry_after <= WindowOf(response'.path)
       /\ RetryAtRetryAfter => response'.result = Admitted]_vars

\* This step is a pass of the background task.
CleanupStep == tasks' = tasks /\ now' = now

\* C24: however the event loop interleaves the check_rate_limit calls in
\* flight and the background task, a request is admitted only into a list
\* that then holds at most L timestamps (with L - 1 in the window, two
\* requests in flight are never both admitted), and a pass of the background
\* task drops nothing but timestamps of 3600 s or more and blocks of more
\* than 3600 s.
C24_AtomicPerClient ==
    [][/\ \A k \in Tasks :
              ( /\ tasks[k].pc # "done"
                /\ tasks'[k].pc = "done"
                /\ tasks'[k].result = Admitted )
              => Len(RequestsOf(requests', tasks'[k].client))
                     <= MaxRequestsOf(tasks'[k].path)
       /\ CleanupStep
          => /\ \A c \in DOMAIN requests :
                    RequestsOf(requests', c)
                        = Younger(requests[c], now, RetentionSeconds)
             /\ \A c \in DOMAIN blocked_ips :
                    now - blocked_ips[c] <= UnblockAfter
                    => /\ c \in DOMAIN blocked_ips'
                       /\ blocked_ips'[c] = blocked_ips[c]]_vars

\* Two requests in flight met L - 1 timestamps: one was admitted, the other
\* answered "Rate limit exceeded".
C24_Witness ==
    /\ tasks[1].pc = "done"
    /\ tasks[2].pc = "done"
    /\ tasks[1].client = tasks[2].client
    /\ tasks[1].path = tasks[2].path
    /\ tasks[1].current_time = tasks[2].current_time
    /\ tasks[1].result = Admitted
    /\ tasks[2].result = RateLimited
    /\ Len(RequestsOf(requests, tasks[1].client)) = MaxRequestsOf(tasks[1].path)

\* C25: once a cancel_transaction and a process_transaction of the same
\* Pending transaction have both returned, in whatever order their steps
\* were taken, a transaction whose amount was applied to the balance is not
\* Cancelled (and so a Cancelled one has no applied amount).
C25_CancelledNeverApplied ==
    ( /\ AllIdle
      /\ last.op = "process"
      /\ last.result = "ok"
      /\ last.amount > 0
      /\ accounts[last.account_id].balance # prev[last.account_id] )
    => transactions[last.tx].status # "cancelled"

\* C26: when a client has stopped sending, its window entry and its block
\* entry are eventually removed by the background task, with no further
\* request from it.
C26_EventuallyReclaimed ==
    \A c \in Clients :
        (c \in DOMAIN requests \/ c \in DOMAIN blocked_ips)
            ~> (c \notin DOMAIN requests /\ c \notin DOMAIN blocked_ips)

\* A client that got itself blocked and then stopped has no entry left.
C26_Witness ==
    /\ response.result \in {NowBlocked, StillBlocked}
    /\ now - response.at > UnblockAfter
    /\ requests = <<>>
    /\ blocked_ips = <<>>

\* C27: in every deployment mode other than production, check_rate_limit
\* admits every request and leaves the windows and the block list as they
\* were (empty).
C27_BypassOutsideProduction ==
    environment # "production"
    => /\ response.result \in {"", Admitted}
       /\ requests = <<>>
       /\ blocked_ips = <<>>

\* C28: process_transaction called on a transaction that is no longer
\* Pending (Completed, Failed, Cancelled or Flagged) changes no balance, so
\* a transaction's amount is applied at most once (stated for deposits and
\* withdrawals of positive amounts).
C28_AppliedAtMostOnce ==
    [][( /\ last' # last
         /\ last'.op = "process"
         /\ last'.amount > 0
         /\ last'.type \in {"deposit", "withdrawal"}
         /\ transactions[last'.tx].status # "pending" )
       => accounts' = accounts]_vars

\* The analysed owner has no transaction in the last 30 days.
NoRecentHistory == Since(history, MonthMinutes) = <<>>

\* C29: for an owner with no transaction in the last 30 days,
\* analyze_transaction returns at most 0.8 whatever the amount, the type and
\* the device, so the creation is not rejected as suspected fraud.
C29_NoHistoryBelowThreshold ==
    (analysis.done /\ NoRecentHistory)
    => /\ analysis.raised = ""
       /\ analysis.risk_score <= FraudThreshold * 100
       /\ ~FraudSuspected(analysis.risk_score)

\* The highest score of such an owner: an old history, a round amount above
\* 1000 and a registered device with another fingerprint give 0.45.
C29_Witness ==
    /\ analysis.done
    /\ history # <<>>
    /\ NoRecentHistory
    /\ analysis.raised = ""
    /\ analysis.device_score = 90
    /\ analysis.pattern_score = 30
    /\ analysis.risk_score = 4500

\* C30: whenever the owner's 7-day transaction count is zero the frequency
\* sub-score is 0: every transaction of the last hour is among those of the
\* last 7 days, so the 0.5 of the zero-average branch is never produced.
C30_ZeroWeekZeroScore ==
    (analysis.done /\ analysis.call = "_analyze_frequency")
    => /\ Len(Since(history, HourMinutes)) <= Len(Since(history, WeekMinutes))
       /\ Len(Since(history, WeekMinutes)) = 0
          => analysis.frequency_score = 0

\* An owner whose transactions are all older than 7 days.
C30_Witness ==
    /\ analysis.done
    /\ analysis.call = "_analyze_frequency"
    /\ Len(history) = MaxHourly
    /\ Len(Since(history, WeekMinutes)) = 0
    /\ analysis.frequency_score = 0
====
